---- MODULE Spec2Model ----
(***************************************************************************)
(* Model of emlearn/eml_audio.h:                                           *)
(*   - EmlAudioBufferer (double buffering): reset, add, and the consumer   *)
(*     clearing read_buffer;                                               *)
(*   - eml_audio_power_spectrogram;                                        *)
(*   - eml_audio_melspec.                                                  *)
(*                                                                         *)
(* Pointers are addresses into a flat memory of MemSize float cells that   *)
(* holds the two caller-owned buffers; NULL is address 0.  A store through *)
(* write_buffer[write_offset] past the end of the buffer is undefined      *)
(* behaviour in C: here it lands in whatever cell has that address (the    *)
(* other buffer, padding), or outside the modelled cells where it is       *)
(* either invisible or faults (halted).  The EmlAudioBufferer struct       *)
(* itself is assumed to live outside the modelled cells.                   *)
(***************************************************************************)
EXTENDS Integers, Sequences, FiniteSets, TLC

\* ---------------------------------------------------------------- bounds
MaxLen == 2
Pad == 1
MaxOps == 7
NumSamples == 2
MaxNfft == 4
MaxVecLen == 4
MaxMels == 2
MaxVal == 1

MemSize == 2 * MaxLen + Pad
Samples == 1..NumSamples
Addr == 1..MemSize

NULL == 0

VARIABLES
    buffer_length,   \* EmlAudioBufferer.buffer_length
    buffer1,         \* EmlAudioBufferer.buffer1 (base address)
    buffer2,         \* EmlAudioBufferer.buffer2 (base address)
    write_buffer,    \* EmlAudioBufferer.write_buffer
    read_buffer,     \* EmlAudioBufferer.read_buffer (NULL when empty)
    write_offset,    \* EmlAudioBufferer.write_offset
    mem,             \* the float cells the buffers live in
    halted,          \* a store outside the modelled cells faulted
    log,             \* history: every call made so far, in order
    ready_frame,     \* history: the read buffer's contents when Ready was returned
    ps,              \* a call of eml_audio_power_spectrogram: arguments and result
    ml               \* a call of eml_audio_melspec: arguments and result

bvars == <<buffer_length, buffer1, buffer2, write_buffer, read_buffer,
           write_offset, mem, halted, log, ready_frame>>

vars == <<bvars, ps, ml>>

\* ------------------------------------------------------ float arithmetic
\* float values are modelled as exact fractions <<numerator, denominator>>,
\* denominator > 0, in lowest terms (rounding is not modelled).

RECURSIVE GCD(_, _)
GCD(a, b) == IF b = 0 THEN a ELSE GCD(b, a % b)

Abs(x) == IF x < 0 THEN -x ELSE x

Rat(n, d) ==
    LET g == GCD(Abs(n), d)
    IN  <<n \div g, d \div g>>

RAdd(x, y) == Rat(x[1] * y[2] + y[1] * x[2], x[2] * y[2])
RMul(x, y) == Rat(x[1] * y[1], x[2] * y[2])

\* An EmlVector: a length and the floats data[0..length-1] (data[i] is the
\* sequence's element i+1).
EmlVector(len, data) == [length |-> len, data |-> data]

\* EML_PRECONDITION(expr, errorcode): the error to return at once when expr
\* does not hold.
EML_PRECONDITION(expr, errorcode) == IF expr THEN "EmlOk" ELSE errorcode

\* ------------------------------------------- eml_audio_power_spectrogram

\* Mutant: spec_length without the DC bin.
spec_length_no_dc(n_fft) == n_fft \div 2

\* line 59
spec_length_of(n_fft) == 1 + n_fft \div 2

\* lines 65-68: the loop from index i on; w is [data, written]
RECURSIVE PSLoop(_, _, _, _, _)
PSLoop(i, spec_length, rfft, n_fft, w) ==
    IF i < spec_length
    THEN LET a == Rat(Abs(rfft.data[i + 1]), 1)
             scale == Rat(1, n_fft)
             v == RMul(scale, RMul(a, a))
         IN  PSLoop(i + 1, spec_length, rfft, n_fft,
                    [data |-> [w.data EXCEPT ![i + 1] = v],
                     written |-> Append(w.written, i)])
    ELSE w

\* eml_audio_power_spectrogram(rfft, out, n_fft): the error returned, out's
\* data afterwards, and the indices of out written, in order
eml_audio_power_spectrogram(rfft, out, n_fft) ==
    LET spec_length == spec_length_of(n_fft)
        e1 == EML_PRECONDITION(rfft.length > spec_length, "EmlSizeMismatch")
        e2 == EML_PRECONDITION(out.length = spec_length, "EmlSizeMismatch")
        w0 == [data |-> out.data, written |-> <<>>]
    IN  IF e1 # "EmlOk" THEN [err |-> e1, data |-> out.data, written |-> <<>>]
        ELSE IF e2 # "EmlOk" THEN [err |-> e2, data |-> out.data, written |-> <<>>]
        ELSE LET w == PSLoop(0, spec_length, rfft, n_fft, w0)
             IN  [err |-> "EmlOk", data |-> w.data, written |-> w.written]

\* A float cell nothing has written yet.
Unwritten == <<-1, 1>>

NoResult == [err |-> "none", data |-> <<>>, written |-> <<>>]

PSIdle == [pc |-> "idle", rfft |-> EmlVector(0, <<>>), out |-> EmlVector(0, <<>>),
           n_fft |-> 0, res |-> NoResult]

\* rfft holds any small values, out has any length and is unwritten.
InitPS ==
    \E n \in 1..MaxNfft, ol \in 0..MaxVecLen, rl \in 1..MaxVecLen :
        \E rd \in [1..rl -> (-MaxVal)..MaxVal] :
            ps = [pc |-> "call", rfft |-> EmlVector(rl, rd),
                  out |-> EmlVector(ol, [i \in 1..ol |-> Unwritten]),
                  n_fft |-> n, res |-> NoResult]

PowerSpectrogramCall ==
    /\ ps.pc = "call"
    /\ ps' = [ps EXCEPT !.pc = "done",
                        !.res = eml_audio_power_spectrogram(ps.rfft, ps.out, ps.n_fft)]
    /\ UNCHANGED <<bvars, ml>>

\* --------------------------------------------------- eml_audio_melspec

\* mel_bin(params, n).  Its float arithmetic (log10, powf, floor over fmin,
\* fmax and samplerate) is not reproduced: params.bins is the table of its
\* results for n = 0..n_mels+1, an input of the model.
mel_bin(params, n) == params.bins[n + 1]

\* Mutant: the right edge tested with >=.
BinOutOfRange_ge(left, right, max_bin) == left < 0 \/ right >= max_bin

\* lines 122-127
BinOutOfRange(left, right, max_bin) == left < 0 \/ right > max_bin

\* lines 130-133: the rising slope from bin k on
RECURSIVE RisingSum(_, _, _, _, _)
RisingSum(k, left, center, spec, val) ==
    IF k < center
    THEN LET weight == Rat(k - left, center - left)
         IN  RisingSum(k + 1, left, center, spec,
                       RAdd(val, RMul(Rat(spec.data[k + 1], 1), weight)))
    ELSE val

\* lines 134-137: the falling slope from bin k on
RECURSIVE FallingSum(_, _, _, _, _)
FallingSum(k, center, right, spec, val) ==
    IF k < right
    THEN LET weight == Rat(right - k, right - center)
         IN  FallingSum(k + 1, center, right, spec,
                        RAdd(val, RMul(Rat(spec.data[k + 1], 1), weight)))
    ELSE val

\* lines 117-142: the loop from filter m on; w is [data, written]
RECURSIVE MelLoop(_, _, _, _, _)
MelLoop(m, mel, max_bin, spec, w) ==
    IF m < mel.n_mels + 1
    THEN LET left == mel_bin(mel, m - 1)
             center == mel_bin(mel, m)
             right == mel_bin(mel, m + 1)
         IN  IF BinOutOfRange(left, right, max_bin)
             THEN [err |-> "EmlUnknownError", data |-> w.data, written |-> w.written]
             ELSE LET v1 == RisingSum(left, left, center, spec, Rat(0, 1))
                      val == FallingSum(center, center, right, spec, v1)
                  IN  MelLoop(m + 1, mel, max_bin, spec,
                              [data |-> [w.data EXCEPT ![m] = val],
                               written |-> Append(w.written, m - 1)])
    ELSE [err |-> "EmlOk", data |-> w.data, written |-> w.written]

\* eml_audio_melspec(mel, spec, mels): the error returned, mels' data
\* afterwards, and the indices of mels written, in order
eml_audio_melspec(mel, spec, mels) ==
    LET max_bin == 1 + mel.n_fft \div 2
        e1 == EML_PRECONDITION(max_bin <= spec.length, "EmlSizeMismatch")
        e2 == EML_PRECONDITION(mel.n_mels = mels.length, "EmlSizeMismatch")
    IN  IF e1 # "EmlOk" THEN [err |-> e1, data |-> mels.data, written |-> <<>>]
        ELSE IF e2 # "EmlOk" THEN [err |-> e2, data |-> mels.data, written |-> <<>>]
        ELSE MelLoop(1, mel, max_bin, spec, [data |-> mels.data, written |-> <<>>])

\* The bins mel_bin can return for the transform sizes modelled.
BinRange == (-1)..(MaxNfft \div 2 + 2)

\* mel_bin is monotone in n: rising when fmin <= fmax, falling otherwise.
Monotone(b) ==
    \/ \A i \in 1..(Len(b) - 1) : b[i] <= b[i + 1]
    \/ \A i \in 1..(Len(b) - 1) : b[i] >= b[i + 1]

MelIdle == [pc |-> "idle", mel |-> [n_mels |-> 0, n_fft |-> 0, bins |-> <<>>],
            spec |-> EmlVector(0, <<>>), mels |-> EmlVector(0, <<>>),
            res |-> NoResult]

\* spec is a ramp of positive values, mels has any length and is unwritten.
InitMel ==
    \E n \in 1..MaxNfft, nm \in 1..MaxMels, sl \in 1..MaxVecLen,
       mlen \in 1..(MaxMels + 1), v \in 1..MaxVal :
        \E b \in [1..(nm + 2) -> BinRange] :
            /\ Monotone(b)
            /\ ml = [pc |-> "call",
                     mel |-> [n_mels |-> nm, n_fft |-> n, bins |-> b],
                     spec |-> EmlVector(sl, [k \in 1..sl |-> v + k - 1]),
                     mels |-> EmlVector(mlen, [i \in 1..mlen |-> Unwritten]),
                     res |-> NoResult]

MelspecCall ==
    /\ ml.pc = "call"
    /\ ml' = [ml EXCEPT !.pc = "done",
                        !.res = eml_audio_melspec(ml.mel, ml.spec, ml.mels)]
    /\ UNCHANGED <<bvars, ps>>

\* ------------------------------------------------------- EmlAudioBufferer

\* The cells p[0..buffer_length-1] as a sequence.
Frame(p) == [i \in 1..buffer_length |-> mem[p + i - 1]]

FrameOf(m, p) == [i \in 1..buffer_length |-> m[p + i - 1]]

\* p[i] = s: a store to an address outside the modelled cells is not seen.
Store(m, a, s) == IF a \in DOMAIN m THEN [m EXCEPT ![a] = s] ELSE m

\* Where the caller put two buffers of n cells: the same buffer twice, or two
\* disjoint ones, adjacent or Pad cells apart, in either order.
Layouts(n) ==
    {<<1, 1>>, <<1, 1 + n>>, <<1 + n, 1>>, <<1, 1 + n + Pad>>, <<1 + n + Pad, 1>>}

Distinct == buffer1 # buffer2

AddEvent(s, idx, ret, wo, wb, rb, fr) ==
    [op |-> "add", s |-> s, idx |-> idx, ret |-> ret, wo |-> wo,
     wb |-> wb, rb |-> rb, frame |-> fr]

ClearEvent ==
    [op |-> "clear", s |-> 0, idx |-> 0, ret |-> 0, wo |-> write_offset,
     wb |-> write_buffer, rb |-> NULL, frame |-> <<>>]

\* idx: write_offset when reset was called
ResetEvent ==
    [op |-> "reset", s |-> 0, idx |-> write_offset, ret |-> 0, wo |-> 0,
     wb |-> buffer1, rb |-> NULL, frame |-> <<>>]

\* Mutant: the address of write_buffer[++write_offset] (pre-increment).
StoreAddr_preincrement(wb, wo) == wb + wo + 1

\* line 36: the address of write_buffer[write_offset]
StoreAddr(wb, wo) == wb + wo

\* Mutant: the frame boundary tested with >=.
AtBoundary_ge(wo) == wo >= buffer_length

\* line 38: the frame boundary
AtBoundary(wo) == wo = buffer_length

\* Mutant: the reader is never seen as busy.
ReaderBusy_never(rb) == FALSE

\* line 40: the consumer has not cleared read_buffer
ReaderBusy(rb) == rb # NULL

\* Mutant: the write buffer is always buffer1 again.
OtherBuffer_same(rb) == buffer1

\* line 47: the buffer that is not the one just handed to the reader
OtherBuffer(rb) == IF rb = buffer1 THEN buffer2 ELSE buffer1

\* Mutant: reset that leaves write_offset as it is.
eml_audio_bufferer_reset_keep_offset ==
    /\ ~halted
    /\ Len(log) < MaxOps
    /\ write_buffer' = buffer1
    /\ read_buffer' = NULL
    /\ log' = Append(log, [ResetEvent EXCEPT !.wo = write_offset])
    /\ ready_frame' = <<>>
    /\ UNCHANGED <<buffer_length, buffer1, buffer2, write_offset, mem, halted>>

\* eml_audio_bufferer_reset
eml_audio_bufferer_reset ==
    /\ ~halted
    /\ Len(log) < MaxOps
    /\ write_buffer' = buffer1
    /\ read_buffer' = NULL
    /\ write_offset' = 0
    /\ log' = Append(log, ResetEvent)
    /\ ready_frame' = <<>>
    /\ UNCHANGED <<buffer_length, buffer1, buffer2, mem, halted>>

\* eml_audio_bufferer_add(self, s), returning through the log's ret
eml_audio_bufferer_add(s) ==
    LET a   == StoreAddr(write_buffer, write_offset)
        wo1 == write_offset + 1
        m1  == Store(mem, a, s)
    IN  /\ ~halted
        /\ Len(log) < MaxOps
        /\ mem' = m1
        /\ IF AtBoundary(wo1)
           THEN IF ReaderBusy(read_buffer)
                THEN \* consumer has not cleared it
                     /\ write_offset' = wo1
                     /\ UNCHANGED <<write_buffer, read_buffer, ready_frame>>
                     /\ log' = Append(log, AddEvent(s, write_offset, -1, wo1,
                                        write_buffer, read_buffer, <<>>))
                ELSE /\ write_offset' = 0
                     /\ read_buffer' = write_buffer
                     /\ write_buffer' = OtherBuffer(write_buffer)
                     /\ ready_frame' = FrameOf(m1, write_buffer)
                     /\ log' = Append(log, AddEvent(s, write_offset, 1, 0,
                                        OtherBuffer(write_buffer), write_buffer,
                                        FrameOf(m1, write_buffer)))
           ELSE /\ write_offset' = wo1
                /\ UNCHANGED <<write_buffer, read_buffer, ready_frame>>
                /\ log' = Append(log, AddEvent(s, write_offset, 0, wo1,
                                   write_buffer, read_buffer, <<>>))
        /\ UNCHANGED <<buffer_length, buffer1, buffer2, halted>>

\* The store of add lands outside the modelled cells and faults.
AddFault ==
    /\ ~halted
    /\ Len(log) < MaxOps
    /\ StoreAddr(write_buffer, write_offset) \notin Addr
    /\ halted' = TRUE
    /\ UNCHANGED <<buffer_length, buffer1, buffer2, write_buffer, read_buffer,
                   write_offset, mem, log, ready_frame>>

\* The consumer clears read_buffer after draining the frame.
ConsumerClear ==
    /\ ~halted
    /\ Len(log) < MaxOps
    /\ read_buffer # NULL
    /\ read_buffer' = NULL
    /\ log' = Append(log, ClearEvent)
    /\ UNCHANGED <<buffer_length, buffer1, buffer2, write_buffer, write_offset,
                   mem, halted, ready_frame>>

\* The state reset leaves, for each buffer length and layout.
InitBufferer ==
    /\ buffer_length \in 1..MaxLen
    /\ \E l \in Layouts(buffer_length) : buffer1 = l[1] /\ buffer2 = l[2]
    /\ write_buffer = buffer1
    /\ read_buffer = NULL
    /\ write_offset = 0
    /\ mem = [a \in Addr |-> 0]
    /\ halted = FALSE
    /\ log = <<>>
    /\ ready_frame = <<>>

\* The bufferer while only the pure functions are exercised.
IdleBufferer ==
    /\ buffer_length = 1
    /\ buffer1 = 1
    /\ buffer2 = 2
    /\ write_buffer = 1
    /\ read_buffer = NULL
    /\ write_offset = 0
    /\ mem = [a \in Addr |-> 0]
    /\ halted = FALSE
    /\ log = <<>>
    /\ ready_frame = <<>>

\* The bufferer, driven by a producer and a consumer.
Init == InitBufferer /\ ps = PSIdle /\ ml = MelIdle

Next ==
    \/ eml_audio_bufferer_reset /\ UNCHANGED <<ps, ml>>
    \/ \E s \in Samples : eml_audio_bufferer_add(s) /\ UNCHANGED <<ps, ml>>
    \/ AddFault /\ UNCHANGED <<ps, ml>>
    \/ ConsumerClear /\ UNCHANGED <<ps, ml>>

Spec == Init /\ [][Next]_vars

\* eml_audio_power_spectrogram applied to bounded inputs.
InitPSpec == IdleBufferer /\ InitPS /\ ml = MelIdle
NextPSpec == PowerSpectrogramCall
SpecPS == InitPSpec /\ [][NextPSpec]_vars

\* eml_audio_melspec applied to bounded inputs.
InitMelSpec == IdleBufferer /\ ps = PSIdle /\ InitMel
NextMelSpec == MelspecCall
SpecMel == InitMelSpec /\ [][NextMelSpec]_vars

\* ------------------------------------------------ reading the history

IsAdd(e) == e.op = "add"

\* Position of the last reset in the log (0: none, the log starts at Init,
\* which is the reset state).
LastReset ==
    LET R == {i \in DOMAIN log : log[i].op = "reset"}
    IN  IF R = {} THEN 0 ELSE CHOOSE i \in R : \A j \in R : j <= i

\* The calls since the last reset.
Cur == SubSeq(log, LastReset + 1, Len(log))

\* The add calls since the last reset, and the samples they added.
CurAdds == SelectSeq(Cur, IsAdd)
Stream == [i \in 1..Len(CurAdds) |-> CurAdds[i].s]

\* Position in Cur of the n-th add call.
AddPos(n) ==
    LET C == Cur
    IN  CHOOSE p \in DOMAIN C :
            /\ IsAdd(C[p])
            /\ Cardinality({q \in 1..p : IsAdd(C[q])}) = n

\* Number of add calls that directly follow log[i], with no other call between.
AddsRightAfter(i) ==
    LET stop == {j \in (i + 1)..Len(log) : ~IsAdd(log[j])}
        first == IF stop = {} THEN Len(log) + 1
                 ELSE CHOOSE j \in stop : \A k \in stop : j <= k
    IN  first - i - 1

Last == log[Len(log)]

\* ------------------------------------------------------------- claims

\* C1: after reset (called in any reachable state, also one left by an
\* Overflow), the first buffer_length-1 add calls return 0 (Filling), the
\* buffer_length-th returns 1 (Ready), and right after it read_buffer is
\* buffer1, holding the samples added, in order.
C1_ResetThenFill ==
    LET A == CurAdds
        S == [i \in 1..Len(A) |-> A[i].s]
    IN  /\ \A i \in 1..Len(A) :
             /\ i < buffer_length => A[i].ret = 0
             /\ i = buffer_length =>
                  /\ A[i].ret = 1
                  /\ A[i].rb = buffer1
                  /\ A[i].frame = SubSeq(S, 1, buffer_length)
        /\ (Len(A) = buffer_length /\ Len(Cur) = buffer_length) =>
             /\ read_buffer = buffer1
             /\ Frame(buffer1) = S

\* C1 witness: reset was called with write_offset = buffer_length (the state an
\* Overflow leaves), and a frame of two samples has been added since.
C1_Witness ==
    /\ LastReset > 0
    /\ log[LastReset].idx = buffer_length
    /\ buffer_length = 2
    /\ Len(Cur) = 2
    /\ Len(CurAdds) = 2
    /\ Last.ret = 1

\* C2: after add returned 1 (Ready), with no clear, the next buffer_length-1
\* add calls return 0 and the buffer_length-th returns -1 (Overflow) without
\* swapping: write_buffer and read_buffer are what they were before the call,
\* and read_buffer still designates the frame that was ready.
C2_OverflowNoSwap ==
    \A i \in DOMAIN log :
        (IsAdd(log[i]) /\ log[i].ret = 1) =>
            /\ \A j \in 1..AddsRightAfter(i) :
                 /\ j < buffer_length => log[i + j].ret = 0
                 /\ j = buffer_length =>
                      /\ log[i + j].ret = -1
                      /\ log[i + j].wb = log[i + j - 1].wb
                      /\ log[i + j].rb = log[i + j - 1].rb
                      /\ log[i + j].rb = log[i].rb
            /\ (i + buffer_length = Len(log) /\ AddsRightAfter(i) = buffer_length) =>
                 /\ read_buffer = log[i].rb
                 /\ write_buffer = log[i].wb
                 /\ Distinct => Frame(read_buffer) = log[i].frame

\* C2 witness: a Ready, then a full frame of adds with no clear, ending in
\* Overflow, with two-sample frames in distinct buffers.
C2_Witness ==
    /\ Distinct
    /\ buffer_length = 2
    /\ Len(log) = 4
    /\ log[2].ret = 1
    /\ AddsRightAfter(2) = 2
    /\ Last.ret = -1

\* C3: with buffer1 and buffer2 distinct, write_buffer is one of the two
\* buffers and read_buffer is NULL or the other one.
C3_RolesDisjoint ==
    Distinct =>
        /\ write_buffer \in {buffer1, buffer2}
        /\ \/ read_buffer = NULL
           \/ /\ read_buffer \in {buffer1, buffer2}
              /\ read_buffer # write_buffer

\* C3 witness: after the second Ready the roles are swapped back: buffer2 is
\* read while buffer1 is written.
C3_Witness ==
    /\ Distinct
    /\ read_buffer = buffer2
    /\ write_buffer = buffer1
    /\ write_offset = 1

\* C4: between operations, 0 <= write_offset < buffer_length.
C4_OffsetInRange ==
    /\ 0 <= write_offset
    /\ write_offset < buffer_length

\* The consumer has cleared read_buffer between every two frame boundaries
\* since the last reset.
TimelyClears ==
    LET C == Cur
        n == Cardinality({q \in DOMAIN C : IsAdd(C[q])})
    IN  \A k \in 1..n :
            (k + 1) * buffer_length <= n =>
                \E p \in DOMAIN C :
                    /\ C[p].op = "clear"
                    /\ AddPos(k * buffer_length) < p
                    /\ p < AddPos((k + 1) * buffer_length)

\* C7: from reset, when the consumer clears read_buffer after every Ready and
\* before the next frame boundary, exactly the adds number buffer_length,
\* 2*buffer_length, ... return 1 (Ready) and all others 0; the ready buffers
\* alternate buffer1, buffer2, buffer1, ...; write_offset is 0 after each
\* Ready; and the k-th ready frame holds samples (k-1)*buffer_length+1 ..
\* k*buffer_length of the stream, in order.
C7_SteadyStream ==
    LET A == CurAdds
        S == [i \in 1..Len(A) |-> A[i].s]
    IN  TimelyClears =>
            \A n \in 1..Len(A) :
                LET e == A[n]
                    k == n \div buffer_length
                IN  IF n % buffer_length = 0
                    THEN /\ e.ret = 1
                         /\ e.wo = 0
                         /\ e.rb = IF k % 2 = 1 THEN buffer1 ELSE buffer2
                         /\ e.frame = SubSeq(S, n - buffer_length + 1, n)
                         /\ n = Len(A) /\ IsAdd(Last) =>
                              /\ write_offset = 0
                              /\ Frame(read_buffer) = SubSeq(S, n - buffer_length + 1, n)
                    ELSE e.ret = 0

\* C7 witness: two-sample frames in distinct buffers, the second Ready just
\* returned after a clear, the two frames holding different samples.
C7_Witness ==
    /\ Distinct
    /\ buffer_length = 2
    /\ TimelyClears
    /\ Len(CurAdds) = 4
    /\ IsAdd(Last)
    /\ Last.ret = 1
    /\ Stream[1] # Stream[2]
    /\ Stream[3] # Stream[1]

\* C8: right after add returns -1 (Overflow) write_offset is buffer_length and
\* write_buffer is not switched; an add that directly follows stores its
\* sample at index buffer_length of write_buffer, one past the last valid
\* index.
C8_OverflowLeavesOffset ==
    \A i \in DOMAIN log :
        (IsAdd(log[i]) /\ log[i].ret = -1) =>
            /\ log[i].wo = buffer_length
            /\ i > 1 => log[i].wb = log[i - 1].wb
            /\ i = Len(log) =>
                 /\ write_offset = buffer_length
                 /\ write_buffer = log[i].wb
            /\ (i < Len(log) /\ IsAdd(log[i + 1])) =>
                 /\ log[i + 1].idx = buffer_length
                 /\ (i + 1 = Len(log) /\ log[i].wb + buffer_length \in Addr) =>
                      mem[log[i].wb + buffer_length] = log[i + 1].s

\* C8 witness: an add made right after an Overflow, whose store landed in a
\* modelled cell.
C8_Witness ==
    /\ Len(log) >= 2
    /\ IsAdd(Last)
    /\ IsAdd(log[Len(log) - 1])
    /\ log[Len(log) - 1].ret = -1
    /\ log[Len(log) - 1].wb + buffer_length \in Addr
    /\ mem[log[Len(log) - 1].wb + buffer_length] = Last.s

\* C9: Overflow is recoverable without reset: when add has returned -1, the
\* consumer has cleared read_buffer afterwards, and the producer has since
\* added a further frame's worth of samples with no reset, one of those adds
\* has returned 1 (Ready).
C9_RecoversAfterClear ==
    \A i \in DOMAIN log :
        (IsAdd(log[i]) /\ log[i].ret = -1) =>
            \A j \in (i + 1)..Len(log) :
                ( /\ log[j].op = "clear"
                  /\ \A k \in i..Len(log) : log[k].op # "reset"
                  /\ Cardinality({k \in (j + 1)..Len(log) : IsAdd(log[k])})
                        >= buffer_length )
                => \E k \in (j + 1)..Len(log) : IsAdd(log[k]) /\ log[k].ret = 1

\* What the code does instead: once write_offset has reached buffer_length,
\* every add moves it further and none returns 1, until reset.
OverflowIsSticky ==
    [][(write_offset >= buffer_length /\ Len(log') > Len(log) /\ IsAdd(log'[Len(log')]))
        => (write_offset' > buffer_length /\ log'[Len(log')].ret = 0)]_vars

\* C10: with buffer1 and buffer2 distinct, from Ready until the consumer
\* clears read_buffer, the cells 0..buffer_length-1 of the buffer read_buffer
\* designates stay as they were when Ready was returned.
C10_ReadFrameStable ==
    (Distinct /\ read_buffer # NULL) => Frame(read_buffer) = ready_frame

\* The set of elements of a sequence.
Range(q) == {q[i] : i \in DOMAIN q}

\* C5: eml_audio_power_spectrogram with out.length # 1 + n_fft/2, or with
\* rfft.length <= 1 + n_fft/2, returns EmlSizeMismatch and leaves every
\* element of out as it was, writing nothing; otherwise it returns EmlOk
\* having written exactly the indices 0..n_fft/2 of out.
C5_PowerSpectrogramSizes ==
    ps.pc = "done" =>
        IF \/ ps.out.length # 1 + ps.n_fft \div 2
           \/ ps.rfft.length <= 1 + ps.n_fft \div 2
        THEN /\ ps.res.err = "EmlSizeMismatch"
             /\ ps.res.data = ps.out.data
             /\ ps.res.written = <<>>
        ELSE /\ ps.res.err = "EmlOk"
             /\ Range(ps.res.written) = 0..(ps.n_fft \div 2)
             /\ Len(ps.res.written) = 1 + ps.n_fft \div 2
             /\ \A i \in 0..(ps.n_fft \div 2) :
                    ps.res.data[i + 1][1] * ps.n_fft
                        = ps.rfft.data[i + 1] * ps.rfft.data[i + 1] * ps.res.data[i + 1][2]

\* C5 witness (failure): out is one element too long and the call has failed.
C5_Witness ==
    /\ ps.pc = "done"
    /\ ps.n_fft = 4
    /\ ps.rfft.length = 4
    /\ ps.out.length = 4
    /\ ps.res.err = "EmlSizeMismatch"

\* C5, the successful case reached: three bins written from a negative input.
C5_WitnessOk ==
    /\ ps.pc = "done"
    /\ ps.n_fft = 4
    /\ ps.rfft.length = 4
    /\ ps.rfft.data[3] = -1
    /\ ps.out.length = 3
    /\ ps.res.err = "EmlOk"
    /\ ps.res.data[3] = <<1, 4>>

\* The filters of a melspec call whose left bin is < 0 or whose right bin is
\* > 1 + n_fft/2.
BadFilters ==
    {m \in 1..ml.mel.n_mels :
        \/ ml.mel.bins[m] < 0
        \/ ml.mel.bins[m + 2] > 1 + ml.mel.n_fft \div 2}

\* Sum over the bins k in [lo, hi) of spec[k] * f(k).
TriangleNum(lo, hi, f(_)) ==
    LET RECURSIVE S(_)
        S(k) == IF k >= hi THEN 0 ELSE ml.spec.data[k + 1] * f(k) + S(k + 1)
    IN  S(lo)

\* The triangular sum of filter m of a melspec call over a common
\* denominator, as <<numerator, denominator>> (not in lowest terms).
FilterValue(m) ==
    LET left == ml.mel.bins[m]
        center == ml.mel.bins[m + 1]
        right == ml.mel.bins[m + 2]
        d1 == IF center > left THEN center - left ELSE 1
        d2 == IF right > center THEN right - center ELSE 1
        up(k) == (k - left) * d2
        down(k) == (right - k) * d1
    IN  <<TriangleNum(left, center, up) + TriangleNum(center, right, down),
          d1 * d2>>

SameValue(x, y) == x[1] * y[2] = y[1] * x[2]

\* C6: eml_audio_melspec (its size preconditions holding) handles the filters
\* m = 1..n_mels in increasing order and fails with EmlUnknownError, which is
\* neither EmlOk nor EmlSizeMismatch, at the first filter whose left bin is < 0
\* or whose right bin is > 1 + n_fft/2; mels[0..m-2] then hold the results of
\* the earlier filters and mels[m-1..n_mels-1] are as they were.  With no such
\* filter the call returns EmlOk with every element of mels written.
C6_MelspecRangeError ==
    ( /\ ml.pc = "done"
      /\ 1 + ml.mel.n_fft \div 2 <= ml.spec.length
      /\ ml.mel.n_mels = ml.mels.length ) =>
        LET first == IF BadFilters = {} THEN ml.mel.n_mels + 1
                     ELSE CHOOSE m \in BadFilters : \A x \in BadFilters : m <= x
        IN  /\ ml.res.err = IF BadFilters = {} THEN "EmlOk" ELSE "EmlUnknownError"
            /\ ml.res.written = [i \in 1..(first - 1) |-> i - 1]
            /\ \A i \in 1..ml.mel.n_mels :
                 IF i < first
                 THEN SameValue(ml.res.data[i], FilterValue(i))
                 ELSE ml.res.data[i] = ml.mels.data[i]

\* C6 witness: the second filter's right bin is out of range; the first
\* filter's result, a non-zero energy, was already written and the second
\* element is untouched.
C6_Witness ==
    /\ ml.pc = "done"
    /\ ml.mel.n_mels = 2
    /\ ml.mels.length = 2
    /\ 1 + ml.mel.n_fft \div 2 <= ml.spec.length
    /\ BadFilters = {2}
    /\ ml.res.err = "EmlUnknownError"
    /\ ml.res.data[1][1] > 0
    /\ ml.res.data[2] = Unwritten

====
